---- MODULE Spec2Model ----
(***************************************************************************)
(* A model of prisma-client-py's database test generator (noxfile.py:      *)
(* the feature registry, has_feature and generate) and of its settings     *)
(* resolution (src/prisma/_config.py: DefaultConfig, Config.from_base,     *)
(* Config.load and LazyConfigProxy).                                       *)
(*                                                                         *)
(* Four specifications share the module:                                   *)
(*   SpecGen      generate(target) over a templates/ directory, and        *)
(*                has_feature                                              *)
(*   SpecResolve  Config.load as a function of the environment and of      *)
(*                pyproject.toml                                           *)
(*   SpecProxy    one process using the lazy proxy, single-threaded        *)
(*   SpecRace     several threads racing on the proxy's first access       *)
(***************************************************************************)
EXTENDS Integers, Sequences, FiniteSets, TLC

VARIABLES
    \* ---- noxfile.py
    templates,    \* the template names found under templates/
    registry,     \* the module-level dict CONFIG
    pc,           \* where the current call of generate is
    target,       \* generate's argument
    listed,       \* whether env.list_templates() was called in this call
    todo,         \* the templates the for loop has still to visit
    rendered,     \* the render_template calls made by this call
    error,        \* the exception this call raised, or None
    hf,           \* the last has_feature call and what it returned
    \* ---- _config.py
    environ,      \* os.environ, restricted to the four PRISMA_* variables
    pyproject,    \* what pyproject.toml holds
    loaded,       \* SpecResolve: what Config.load() returned or raised
    cache,        \* the lru_cache entry of __get_proxied: a Config or None
    proxy_dict,   \* the instance __dict__ of the LazyConfigProxy
    loads,        \* how many times Config.load has been executed
    served,       \* the identities of the objects __get_proxied returned
    result,       \* what the last operation on the proxy produced
    nchanges,     \* environment and project file changes made so far
    nassigns,     \* attribute assignments made so far
    \* ---- threads racing on the proxy
    tpc,          \* each thread's position inside __get_proxied
    tobj,         \* the Config each thread's own Config.load built
    tret,         \* what each thread's access returned
    late,         \* whether the access began after initialisation was over
    callers,      \* the threads that missed the cache, in calling order
    stores        \* the objects stored in the cache, in storing order

vars == <<templates, registry, pc, target, listed, todo, rendered, error, hf,
          environ, pyproject, loaded, cache, proxy_dict, loads, served,
          result, nchanges, nassigns, tpc, tobj, tret, late, callers, stores>>

genVars == <<templates, registry, pc, target, listed, todo, rendered, error, hf>>
cfgVars == <<environ, pyproject, loaded, cache, proxy_dict, loads, served,
             result, nchanges, nassigns>>
raceVars == <<tpc, tobj, tret, late, callers, stores>>

None == "None"

\* dict.get's None where a Feature is expected, and "no exception"
NoFeature == 0
NoError == <<>>

\* No has_feature call made yet
NoCall == [config |-> None, feature |-> None, result |-> FALSE]

(***************************************************************************)
(* noxfile.py                                                              *)
(***************************************************************************)

\* class Feature(Enum): five members numbered by auto()
Feature == [enum |-> 1, json |-> 2, arrays |-> 3, create_many |-> 4,
            case_sensitivity |-> 5]

FeatureNames == DOMAIN Feature

\* CONFIG: the registry of database targets
CONFIG ==
    [postgresql |->
        [disable_features |-> {},
         defaults |-> [case_sensitive_filtering |-> TRUE]],
     sqlite |->
        [disable_features |-> {Feature.enum, Feature.json, Feature.arrays,
                               Feature.create_many, Feature.case_sensitivity},
         defaults |-> [case_sensitive_filtering |-> FALSE]]]

\* A template name is a sequence of pieces of its text: 'base/test_enums.py.jinja'
\* is <<"base", "/test_enums.py.jinja">>, 'baseline.jinja' is <<"base", "line.jinja">>.
TEMPLATE_TO_FEATURE ==
    (<<"base", "/test_enums.py.jinja">> :> Feature.enum) @@
    (<<"base", "/test_arrays.py.jinja">> :> Feature.arrays) @@
    (<<"base", "/test_create_many.py.jinja">> :> Feature.create_many) @@
    (<<"base", "/test_case_sensitivity.py.jinja">> :> Feature.case_sensitivity) @@
    (<<"base", "/types/test_json.py.jinja">> :> Feature.json)

\* The names a templates/ directory may hold, in the sorted order in which
\* env.list_templates() returns them.
AllTemplates ==
    << <<"base", "/test_create.py.jinja">>,
       <<"base", "/test_enums.py.jinja">>,
       <<"base", "/types/test_json.py.jinja">>,
       <<"base", "line.jinja">>,
       <<"other", "/readme.jinja">>,
       <<"postgresql", "/test_create.py.jinja">>,
       <<"postgresql", "/test_enums.py.jinja">>,
       <<"sqlite", "/test_enums.py.jinja">>,
       <<"sqlite", "/types/test_json.py.jinja">>,
       <<"sqlite", "line.jinja">> >>

TemplateUniverse == {AllTemplates[i] : i \in DOMAIN AllTemplates}

\* The arguments generate is called with: the two targets and an unknown one.
TargetNames == {"postgresql", "sqlite", "mysql"}

\* How many templates the directory holds at most.
MaxTemplates == 4

\* str.startswith(prefix), on pieces
startswith(s, prefix) == Len(s) >= 1 /\ s[1] = prefix

\* str.replace(old, new, 1): the first occurrence of old, on pieces
replace(s, old, new) ==
    IF \E i \in DOMAIN s : s[i] = old
    THEN LET i == CHOOSE k \in DOMAIN s :
                      s[k] = old /\ \A j \in 1..(k - 1) : s[j] # old
         IN  [s EXCEPT ![i] = new]
    ELSE s

\* env.list_templates(): the directory's names, sorted
list_templates(fs) == SelectSeq(AllTemplates, LAMBDA t : t \in fs)

\* env.get_template(name) raises TemplateNotFound iff no such file exists
TemplateNotFound(fs, name) == name \notin fs

\* resolve_template_path(Path.cwd(), name): the output path, under the
\* working directory, derived from the template's name
resolve_template_path(name) == <<"cwd">> \o name

\* TEMPLATE_TO_FEATURE.get(template)
TemplateFeature(template) ==
    IF template \in DOMAIN TEMPLATE_TO_FEATURE
    THEN TEMPLATE_TO_FEATURE[template] ELSE NoFeature

\* has_feature with the 'not' dropped
has_feature_inverted(config, feature) ==
    LET enum == Feature[feature]
    IN  enum \in config.disable_features

\* has_feature(config, feature)
has_feature(config, feature) ==
    LET enum == Feature[feature]
    IN  enum \notin config.disable_features

\* The loop body without the disabled-feature test
LoopBodyNoGate(template, tgt, fs, disabled) ==
    IF startswith(template, "base")
    THEN LET name == replace(template, "base", tgt)
         IN  IF ~TemplateNotFound(fs, name) THEN {}
             ELSE {[template |-> template, file |-> resolve_template_path(name)]}
    ELSE IF startswith(template, tgt)
    THEN {[template |-> template, file |-> resolve_template_path(template)]}
    ELSE {}

\* The loop body without the override test
LoopBodyNoOverride(template, tgt, fs, disabled) ==
    IF startswith(template, "base")
    THEN LET name == replace(template, "base", tgt)
             feature == TemplateFeature(template)
         IN  IF feature # NoFeature /\ feature \in disabled THEN {}
             ELSE {[template |-> template, file |-> resolve_template_path(name)]}
    ELSE IF startswith(template, tgt)
    THEN {[template |-> template, file |-> resolve_template_path(template)]}
    ELSE {}

\* The body of generate's for loop: the render_template calls (none or one)
\* it makes for one template
LoopBody(template, tgt, fs, disabled) ==
    IF startswith(template, "base")
    THEN LET name == replace(template, "base", tgt)
             feature == TemplateFeature(template)
         IN  IF ~TemplateNotFound(fs, name) THEN {}
             ELSE IF feature # NoFeature /\ feature \in disabled THEN {}
             ELSE {[template |-> template, file |-> resolve_template_path(name)]}
    ELSE IF startswith(template, tgt)
    THEN {[template |-> template, file |-> resolve_template_path(template)]}
    ELSE {}

\* generate's entry with CONFIG.get(target) never None: an unknown target
\* goes on with nothing disabled
GenerateStartNoCheck(t) ==
    /\ pc \in {"idle", "done", "error"}
    /\ target' = t
    /\ rendered' = {}
    /\ error' = NoError
    /\ listed' = TRUE
    /\ todo' = list_templates(templates)
    /\ pc' = "loop"
    /\ UNCHANGED <<templates, registry, hf, cfgVars, raceVars>>

\* generate(target), up to the for loop: the registry lookup, then the
\* listing of the templates
GenerateStart(t) ==
    /\ pc \in {"idle", "done", "error"}
    /\ target' = t
    /\ rendered' = {}
    /\ IF t \notin DOMAIN registry
       THEN /\ error' = <<"RuntimeError", "No database config for ", t>>
            /\ pc' = "error"
            /\ listed' = FALSE
            /\ todo' = <<>>
       ELSE /\ error' = NoError
            /\ listed' = TRUE
            /\ todo' = list_templates(templates)
            /\ pc' = "loop"
    /\ UNCHANGED <<templates, registry, hf, cfgVars, raceVars>>

\* config['disable_features'] of the running call
Disabled == IF target \in DOMAIN registry
            THEN registry[target].disable_features ELSE {}

\* One iteration of the for loop
GenerateStep ==
    /\ pc = "loop"
    /\ todo # <<>>
    /\ rendered' = rendered \cup LoopBody(Head(todo), target, templates, Disabled)
    /\ todo' = Tail(todo)
    /\ UNCHANGED <<templates, registry, pc, target, listed, error, hf>>
    /\ UNCHANGED <<cfgVars, raceVars>>

\* The for loop is exhausted and generate returns
GenerateReturn ==
    /\ pc = "loop"
    /\ todo = <<>>
    /\ pc' = "done"
    /\ UNCHANGED <<templates, registry, target, listed, todo, rendered, error, hf>>
    /\ UNCHANGED <<cfgVars, raceVars>>

\* A call of has_feature, as the templates make it through the partial
HasFeatureCall(t, f) ==
    /\ hf' = [config |-> t, feature |-> f, result |-> has_feature(registry[t], f)]
    /\ UNCHANGED <<templates, registry, pc, target, listed, todo, rendered, error>>
    /\ UNCHANGED <<cfgVars, raceVars>>

\* generate has not been called; the directory holds any templates
GenInit ==
    /\ templates \in {fs \in SUBSET TemplateUniverse : Cardinality(fs) <= MaxTemplates}
    /\ registry = CONFIG
    /\ pc = "idle"
    /\ target = None
    /\ listed = FALSE
    /\ todo = <<>>
    /\ rendered = {}
    /\ error = NoError
    /\ hf = NoCall
    /\ environ = <<>>
    /\ pyproject = <<>>
    /\ loaded = <<>>
    /\ cache = <<>>
    /\ proxy_dict = <<>>
    /\ loads = 0
    /\ served = {}
    /\ result = <<>>
    /\ nchanges = 0
    /\ nassigns = 0
    /\ tpc = <<>>
    /\ tobj = <<>>
    /\ tret = <<>>
    /\ late = <<>>
    /\ callers = <<>>
    /\ stores = <<>>

GenNext ==
    \/ \E t \in TargetNames : GenerateStart(t)
    \/ GenerateStep
    \/ GenerateReturn
    \/ \E t \in DOMAIN registry, f \in FeatureNames : HasFeatureCall(t, f)

SpecGen == GenInit /\ [][GenNext]_vars

(***************************************************************************)
(* src/prisma/_config.py: the settings model                               *)
(***************************************************************************)

Fields == {"prisma_version", "engine_version", "prisma_url", "engine_url",
           "binary_cache_dir"}

StrFields == {"engine_version", "prisma_url", "engine_url"}

\* None, where a path is expected
PathNone == <<None>>

\* The declared defaults of DefaultConfig's fields
FieldDefault ==
    [prisma_version |-> "3.13.0",
     engine_version |-> "efdf9b1183dddfd4258cd181a72125755215ab7b",
     prisma_url |-> "https://prisma-photongo.s3-eu-west-1.amazonaws.com/prisma-cli-{version}-{platform}.gz",
     engine_url |-> "https://binaries.prisma.sh/all_commits/{0}/{1}/{2}.gz",
     binary_cache_dir |-> PathNone]

\* The environment variable each field of DefaultConfig is read from: the
\* Field's env=, and the field's own name where none is given
DefaultConfigEnv ==
    [prisma_version |-> "prisma_version",
     engine_version |-> "PRISMA_ENGINE_VERSION",
     prisma_url |-> "PRISMA_CLI_URL",
     engine_url |-> "PRISMA_ENGINE_URL",
     binary_cache_dir |-> "PRISMA_BINARY_CACHE_DIR"]

\* class Config(DefaultConfig) declares binary_cache_dir again, as a
\* required Path and without env=
ConfigEnv == [DefaultConfigEnv EXCEPT !.binary_cache_dir = "binary_cache_dir"]

\* The value each environment variable has when it is set. A path's text is
\* the sequence of its '/'-separated segments: 'env/./cache'.
EnvValue ==
    [PRISMA_ENGINE_VERSION |-> "env-engine",
     PRISMA_CLI_URL |-> "env-cli-url",
     PRISMA_ENGINE_URL |-> "env-engine-url",
     PRISMA_BINARY_CACHE_DIR |-> <<"env", ".", "cache">>]

EnvVars == DOMAIN EnvValue

\* The value each key of [tool.prisma] has when the table gives it:
\* binary_cache_dir = 'file/cache/'
FileValue ==
    [engine_version |-> "file-engine",
     prisma_url |-> "file-cli-url",
     engine_url |-> "file-engine-url",
     binary_cache_dir |-> <<"file", "cache", "">>]

FileKeys == DOMAIN FileValue

\* What an attribute assignment writes
AssignValue ==
    [prisma_version |-> "assigned",
     engine_version |-> "assigned",
     prisma_url |-> "assigned",
     engine_url |-> "assigned",
     binary_cache_dir |-> <<"assigned">>]

Restrict(f, S) == [x \in S |-> f[x]]

EmptyDict == Restrict(EnvValue, {})

\* Every environment: each of the four variables set or unset
EnvStates == {Restrict(EnvValue, S) : S \in SUBSET EnvVars}

\* pyproject.toml: absent, not valid TOML, or valid with a [tool.prisma]
\* table holding some of the keys (none: the table is absent or empty)
FileStates ==
    {[state |-> "missing", prisma |-> EmptyDict],
     [state |-> "malformed", prisma |-> EmptyDict]}
    \cup {[state |-> "ok", prisma |-> Restrict(FileValue, S)] : S \in SUBSET FileKeys}

\* tempfile.gettempdir()
TempDir == <<"tmp">>

\* Path(text): the path's parts; empty and '.' segments are dropped
Path(text) == SelectSeq(text, LAMBDA seg : seg \notin {"", "."})

\* path / segment / ...
Join(path, segs) == path \o Path(segs)

\* Config.customise_sources with init settings prioritised over env settings
customise_sources_init_first == <<"init_settings", "env_settings", "file_secret_settings">>

\* Config.customise_sources: the sources, highest priority first
customise_sources == <<"env_settings", "init_settings", "file_secret_settings">>

\* BaseSettings' env source for a class whose fields read the variables envnames
env_settings(envnames) ==
    [f \in {g \in Fields : envnames[g] \in DOMAIN environ} |-> environ[envnames[f]]]

\* The validation of one field's value: Union[Path, None] and Path build a
\* Path from text, str keeps a string
validate(f, v) ==
    IF f = "binary_cache_dir" /\ v # PathNone THEN Path(v) ELSE v

\* BaseSettings.__init__: the value of each field is taken from the first of
\* the customised sources that gives it, else from the default; keys that
\* are no field are ignored (Extra.ignore)
build_values(envnames, init, defaults) ==
    LET order == customise_sources
        source(name) == CASE name = "env_settings" -> env_settings(envnames)
                          [] name = "init_settings" -> init
                          [] OTHER -> EmptyDict
        given(f) == {i \in DOMAIN order : f \in DOMAIN source(order[i])}
        first(f) == CHOOSE i \in given(f) : \A j \in given(f) : i <= j
    IN  [f \in Fields |->
            validate(f, IF given(f) # {} THEN source(order[first(f)])[f]
                        ELSE defaults[f])]

\* DefaultConfig.parse_obj(config)
DefaultConfig_parse_obj(obj) == build_values(DefaultConfigEnv, obj, FieldDefault)

\* Config.parse_obj(obj): every field is given by obj
Config_parse_obj(obj) == build_values(ConfigEnv, obj, obj)

\* from_base deriving the cache directory whether or not one was supplied
from_base_always(config) ==
    Config_parse_obj(
        [config EXCEPT !.binary_cache_dir =
            Join(Path(TempDir), <<"prisma", "binaries", "engines", config.engine_version>>)])

\* Config.from_base(config)
from_base(config) ==
    LET filled ==
            IF config.binary_cache_dir = PathNone
            THEN [config EXCEPT !.binary_cache_dir =
                    Join(Path(TempDir),
                         <<"prisma", "binaries", "engines", config.engine_version>>)]
            ELSE config
    IN  Config_parse_obj(filled)

\* What no Config holds
NoConfig == [f \in Fields |-> IF f = "binary_cache_dir" THEN PathNone ELSE None]

\* Config.load(): the exception it raises (None: it returns) and the Config
\* it returns
Config_load ==
    IF pyproject.state = "malformed"
    THEN [exc |-> "TOMLKitError", value |-> NoConfig]
    ELSE LET config == IF pyproject.state = "ok" THEN pyproject.prisma ELSE EmptyDict
         IN  [exc |-> None, value |-> from_base(DefaultConfig_parse_obj(config))]

NotLoaded == [called |-> FALSE, exc |-> None, value |-> NoConfig]

\* One call of Config.load() in the given environment and project file
Load ==
    /\ loaded' = [called |-> TRUE, exc |-> Config_load.exc, value |-> Config_load.value]
    /\ UNCHANGED <<environ, pyproject, cache, proxy_dict, loads, served, result,
                   nchanges, nassigns>>
    /\ UNCHANGED <<genVars, raceVars>>

NoObject == [id |-> 0, fields |-> NoConfig]

NoResult == [op |-> None, via |-> None, id |-> 0]

\* A process start: any environment, any project file
ResolveInit ==
    /\ environ \in EnvStates
    /\ pyproject \in FileStates
    /\ loaded = NotLoaded
    /\ cache = NoObject
    /\ proxy_dict = EmptyDict
    /\ loads = 0
    /\ served = {}
    /\ result = NoResult
    /\ nchanges = 0
    /\ nassigns = 0
    /\ templates = {}
    /\ registry = CONFIG
    /\ pc = "idle"
    /\ target = None
    /\ listed = FALSE
    /\ todo = <<>>
    /\ rendered = {}
    /\ error = NoError
    /\ hf = NoCall
    /\ tpc = <<>>
    /\ tobj = <<>>
    /\ tret = <<>>
    /\ late = <<>>
    /\ callers = <<>>
    /\ stores = <<>>

ResolveNext == Load

SpecResolve == ResolveInit /\ [][ResolveNext]_vars

(***************************************************************************)
(* src/prisma/_config.py: LazyConfigProxy, in one thread                   *)
(***************************************************************************)

\* Environment and project file changes plus attribute assignments a run makes
MaxOps == 2

\* Executions of Config.load a run makes
MaxLoads == 3

\* The project files the proxy's runs start from and write
ProxyFileStates ==
    {[state |-> "missing", prisma |-> EmptyDict],
     [state |-> "malformed", prisma |-> EmptyDict],
     [state |-> "ok", prisma |-> FileValue]}

\* The variables the proxy's runs start with set or unset, and change
ProxyEnvVars == {"PRISMA_ENGINE_VERSION", "PRISMA_BINARY_CACHE_DIR"}

\* The fields the runs assign to
AssignFields == {"engine_version", "binary_cache_dir"}

\* lru_cache's wrapper keeping the first object stored under a key
CacheStoreKeepFirst(c, obj) == IF c = NoObject THEN obj ELSE c

\* lru_cache's wrapper, after the call returned: cache[key] = result
CacheStore(c, obj) == obj

\* __get_proxied without its lru_cache: every call loads, and the last
\* object loaded is the one kept
get_proxied_uncached ==
    LET r == Config_load
        o == [id |-> loads + 1, fields |-> r.value]
    IN  IF r.exc # None
        THEN [hit |-> FALSE, exc |-> r.exc, obj |-> NoObject,
              cache |-> cache, loads |-> loads + 1]
        ELSE [hit |-> FALSE, exc |-> None, obj |-> o,
              cache |-> o, loads |-> loads + 1]

\* self.__get_proxied(), run by one thread without interruption: a hit
\* returns the cached object; a miss executes Config.load() and stores what
\* it returned; an exception is stored nowhere
get_proxied ==
    IF cache # NoObject
    THEN [hit |-> TRUE, exc |-> None, obj |-> cache, cache |-> cache, loads |-> loads]
    ELSE LET r == Config_load
             o == [id |-> loads + 1, fields |-> r.value]
         IN  IF r.exc # None
             THEN [hit |-> FALSE, exc |-> r.exc, obj |-> NoObject,
                   cache |-> cache, loads |-> loads + 1]
             ELSE [hit |-> FALSE, exc |-> None, obj |-> o,
                   cache |-> CacheStore(cache, o), loads |-> loads + 1]

\* Whether the next call of __get_proxied stays within MaxLoads
MayCall == cache # NoObject \/ loads < MaxLoads

\* The state after a call of __get_proxied made for operation op
Proxied(op) ==
    LET g == get_proxied
    IN  /\ cache' = g.cache
        /\ loads' = g.loads
        /\ served' = IF g.exc = None THEN served \cup {g.obj.id} ELSE served
        /\ result' = [op |-> op,
                      via |-> IF g.exc # None THEN "raise"
                              ELSE IF g.hit THEN "cache" ELSE "load",
                      id |-> g.obj.id]

\* proxy.<attr>: the instance __dict__ is looked up first, and __getattr__
\* runs only when the attribute is not found there
GetAttr(attr) ==
    /\ IF attr \in DOMAIN proxy_dict
       THEN /\ result' = [op |-> "getattr", via |-> "dict", id |-> 0]
            /\ UNCHANGED <<cache, loads, served>>
       ELSE /\ MayCall
            /\ Proxied("getattr")
    /\ UNCHANGED <<environ, pyproject, loaded, proxy_dict, nchanges, nassigns>>
    /\ UNCHANGED <<genVars, raceVars>>

\* repr(proxy)
Repr ==
    /\ MayCall
    /\ Proxied("repr")
    /\ UNCHANGED <<environ, pyproject, loaded, proxy_dict, nchanges, nassigns>>
    /\ UNCHANGED <<genVars, raceVars>>

\* str(proxy)
Str ==
    /\ MayCall
    /\ Proxied("str")
    /\ UNCHANGED <<environ, pyproject, loaded, proxy_dict, nchanges, nassigns>>
    /\ UNCHANGED <<genVars, raceVars>>

\* The environment's own step: os.environ[v] = ... or del os.environ[v]
SetEnv(v) ==
    /\ nchanges + nassigns < MaxOps
    /\ environ' = IF v \in DOMAIN environ
                  THEN Restrict(EnvValue, DOMAIN environ \ {v})
                  ELSE Restrict(EnvValue, DOMAIN environ \cup {v})
    /\ nchanges' = nchanges + 1
    /\ UNCHANGED <<pyproject, loaded, cache, proxy_dict, loads, served, result, nassigns>>
    /\ UNCHANGED <<genVars, raceVars>>

\* The environment's own step: pyproject.toml is written, or removed
WriteFile(p) ==
    /\ nchanges + nassigns < MaxOps
    /\ p # pyproject
    /\ pyproject' = p
    /\ nchanges' = nchanges + 1
    /\ UNCHANGED <<environ, loaded, cache, proxy_dict, loads, served, result, nassigns>>
    /\ UNCHANGED <<genVars, raceVars>>

\* proxy.<attr> = value: LazyConfigProxy defines no __setattr__, so the
\* value lands in the proxy's own __dict__
AssignProxy(attr) ==
    /\ nchanges + nassigns < MaxOps
    /\ proxy_dict' = [f \in DOMAIN proxy_dict \cup {attr} |->
                        IF f = attr THEN AssignValue[f] ELSE proxy_dict[f]]
    /\ nassigns' = nassigns + 1
    /\ UNCHANGED <<environ, pyproject, loaded, cache, loads, served, result, nchanges>>
    /\ UNCHANGED <<genVars, raceVars>>

\* <the Config>.<attr> = value, by a holder of the resolved object: the
\* settings classes allow assignment (from_base itself assigns)
AssignConfig(attr) ==
    /\ nchanges + nassigns < MaxOps
    /\ cache # NoObject
    /\ cache' = [cache EXCEPT !.fields[attr] = AssignValue[attr]]
    /\ nassigns' = nassigns + 1
    /\ UNCHANGED <<environ, pyproject, loaded, proxy_dict, loads, served, result, nchanges>>
    /\ UNCHANGED <<genVars, raceVars>>

\* What reading proxy.<attr> returns once the settings are resolved
ReadAttr(attr) ==
    IF attr \in DOMAIN proxy_dict THEN proxy_dict[attr] ELSE cache.fields[attr]

\* A process start: the proxy is constructed, nothing is resolved
ProxyInit ==
    /\ environ \in {Restrict(EnvValue, S) : S \in SUBSET ProxyEnvVars}
    /\ pyproject \in ProxyFileStates
    /\ loaded = NotLoaded
    /\ cache = NoObject
    /\ proxy_dict = EmptyDict
    /\ loads = 0
    /\ served = {}
    /\ result = NoResult
    /\ nchanges = 0
    /\ nassigns = 0
    /\ templates = {}
    /\ registry = CONFIG
    /\ pc = "idle"
    /\ target = None
    /\ listed = FALSE
    /\ todo = <<>>
    /\ rendered = {}
    /\ error = NoError
    /\ hf = NoCall
    /\ tpc = <<>>
    /\ tobj = <<>>
    /\ tret = <<>>
    /\ late = <<>>
    /\ callers = <<>>
    /\ stores = <<>>

ProxyNext ==
    \/ \E attr \in Fields : GetAttr(attr)
    \/ Repr
    \/ Str
    \/ \E v \in ProxyEnvVars : SetEnv(v)
    \/ \E p \in ProxyFileStates : WriteFile(p)
    \/ \E attr \in AssignFields : AssignProxy(attr)
    \/ \E attr \in AssignFields : AssignConfig(attr)

SpecProxy == ProxyInit /\ [][ProxyNext]_vars

(***************************************************************************)
(* src/prisma/_config.py: LazyConfigProxy, several threads. The cache of   *)
(* __get_proxied has no lock: a thread looks the key up, calls Config.load *)
(* on a miss and stores the result, and other threads run in between.      *)
(***************************************************************************)

\* The threads that use the proxy
NThreads == 2

Threads == 1..NThreads

\* No thread is between its cache miss and its store
Quiescent == \A t \in Threads : tpc[t] \notin {"loading", "store"}

\* A thread enters __get_proxied: the cache lookup
Call(t) ==
    /\ tpc[t] = "idle"
    /\ IF cache # NoObject
       THEN /\ tpc' = [tpc EXCEPT ![t] = "done"]
            /\ tret' = [tret EXCEPT ![t] = cache.id]
            /\ late' = [late EXCEPT ![t] = Quiescent]
            /\ UNCHANGED callers
       ELSE /\ Len(callers) < MaxLoads
            /\ tpc' = [tpc EXCEPT ![t] = "loading"]
            /\ callers' = Append(callers, t)
            /\ UNCHANGED <<tret, late>>
    /\ UNCHANGED <<tobj, stores, cache, loads>>
    /\ UNCHANGED <<environ, pyproject, loaded, proxy_dict, served, result,
                   nchanges, nassigns>>
    /\ UNCHANGED genVars

\* After a miss: the thread's own execution of Config.load()
RunLoad(t) ==
    /\ tpc[t] = "loading"
    /\ loads' = loads + 1
    /\ IF Config_load.exc # None
       THEN /\ tpc' = [tpc EXCEPT ![t] = "done"]
            /\ UNCHANGED tobj
       ELSE /\ tpc' = [tpc EXCEPT ![t] = "store"]
            /\ tobj' = [tobj EXCEPT ![t] = [id |-> loads + 1, fields |-> Config_load.value]]
    /\ UNCHANGED <<tret, late, callers, stores, cache>>
    /\ UNCHANGED <<environ, pyproject, loaded, proxy_dict, served, result,
                   nchanges, nassigns>>
    /\ UNCHANGED genVars

\* The thread stores the object it loaded and returns it
Store(t) ==
    /\ tpc[t] = "store"
    /\ cache' = CacheStore(cache, tobj[t])
    /\ stores' = Append(stores, tobj[t].id)
    /\ tret' = [tret EXCEPT ![t] = tobj[t].id]
    /\ tpc' = [tpc EXCEPT ![t] = "done"]
    /\ UNCHANGED <<tobj, late, callers, loads>>
    /\ UNCHANGED <<environ, pyproject, loaded, proxy_dict, served, result,
                   nchanges, nassigns>>
    /\ UNCHANGED genVars

\* The access is over; the thread may make another
Again(t) ==
    /\ tpc[t] = "done"
    /\ tpc' = [tpc EXCEPT ![t] = "idle"]
    /\ tret' = [tret EXCEPT ![t] = 0]
    /\ late' = [late EXCEPT ![t] = FALSE]
    /\ UNCHANGED <<tobj, callers, stores, cache, loads>>
    /\ UNCHANGED <<environ, pyproject, loaded, proxy_dict, served, result,
                   nchanges, nassigns>>
    /\ UNCHANGED genVars

\* A process start with its threads about to use the proxy
RaceInit ==
    /\ environ \in {Restrict(EnvValue, S) : S \in SUBSET ProxyEnvVars}
    /\ pyproject \in ProxyFileStates
    /\ loaded = NotLoaded
    /\ cache = NoObject
    /\ proxy_dict = EmptyDict
    /\ loads = 0
    /\ served = {}
    /\ result = NoResult
    /\ nchanges = 0
    /\ nassigns = 0
    /\ tpc = [t \in Threads |-> "idle"]
    /\ tobj = [t \in Threads |-> NoObject]
    /\ tret = [t \in Threads |-> 0]
    /\ late = [t \in Threads |-> FALSE]
    /\ callers = <<>>
    /\ stores = <<>>
    /\ templates = {}
    /\ registry = CONFIG
    /\ pc = "idle"
    /\ target = None
    /\ listed = FALSE
    /\ todo = <<>>
    /\ rendered = {}
    /\ error = NoError
    /\ hf = NoCall

RaceNext ==
    \/ \E t \in Threads : Call(t)
    \/ \E t \in Threads : RunLoad(t)
    \/ \E t \in Threads : Store(t)
    \/ \E t \in Threads : Again(t)

SpecRace == RaceInit /\ [][RaceNext]_vars

(***************************************************************************)
(* The claims                                                              *)
(***************************************************************************)

RenderedTemplates == {r.template : r \in rendered}

\* C1: for every target T and every feature F that T disables, generate(T)
\* never passes to render_template a template that TEMPLATE_TO_FEATURE maps
\* to F, whatever templates the directory holds.
C1_DisabledFeatureNeverRendered ==
    \A t \in RenderedTemplates :
        t \in DOMAIN TEMPLATE_TO_FEATURE =>
            /\ target \in DOMAIN CONFIG
            /\ TEMPLATE_TO_FEATURE[t] \notin CONFIG[target].disable_features

\* generate('sqlite') has returned, over a directory holding a gated base
\* template with no sqlite override, and rendered something else
C1_Witness ==
    /\ pc = "done"
    /\ target = "sqlite"
    /\ <<"base", "/test_enums.py.jinja">> \in templates
    /\ <<"sqlite", "/test_enums.py.jinja">> \notin templates
    /\ <<"base", "/test_create.py.jinja">> \in RenderedTemplates

\* C2: for every target T and every base template B, if the template named
\* as B with its leading 'base' replaced by T exists, generate(T) does not
\* render B and does render that template; B is rendered only when no such
\* override exists.
C2_OverrideSuppressesBase ==
    target \in DOMAIN CONFIG =>
        \A B \in templates :
            startswith(B, "base") =>
                LET override == replace(B, "base", target)
                IN  /\ B \in RenderedTemplates => override \notin templates
                    /\ (pc = "done" /\ override \in templates) =>
                          /\ B \notin RenderedTemplates
                          /\ override \in RenderedTemplates

\* generate('postgresql') has returned, over a directory holding a base
\* template with its override and a base template without one
C2_Witness ==
    /\ pc = "done"
    /\ target = "postgresql"
    /\ <<"base", "/test_enums.py.jinja">> \in templates
    /\ <<"postgresql", "/test_enums.py.jinja">> \in RenderedTemplates
    /\ <<"base", "/test_create.py.jinja">> \in RenderedTemplates

\* C7: generate(T) for a T with no entry in CONFIG fails at once with an
\* error carrying T: no template has been listed or rendered, no file written.
C7_UnknownTargetFailsFirst ==
    (pc # "idle" /\ target \notin DOMAIN CONFIG) =>
        /\ pc = "error"
        /\ error = <<"RuntimeError", "No database config for ", target>>
        /\ ~listed
        /\ todo = <<>>
        /\ rendered = {}

\* generate('mysql') has failed over a directory that holds templates
C7_Witness ==
    /\ pc = "error"
    /\ target = "mysql"
    /\ <<"base", "/test_create.py.jinja">> \in templates

\* C9: has_feature(c, f) is true unless f is in c's disabled-feature set,
\* and then false; it leaves c and the registry as they were. It is true
\* for all five features on postgresql and false for all five on sqlite.
C9_HasFeature ==
    /\ registry = CONFIG
    /\ hf # NoCall =>
          /\ hf.result = (Feature[hf.feature] \notin CONFIG[hf.config].disable_features)
          /\ hf.config = "postgresql" => hf.result = TRUE
          /\ hf.config = "sqlite" => hf.result = FALSE

\* has_feature was called for sqlite's json
C9_Witness == hf = [config |-> "sqlite", feature |-> "json", result |-> FALSE]

\* Config.load() was called and returned
Returned == loaded.called /\ loaded.exc = None

\* The field's environment variable is set
EnvGives(f) == DefaultConfigEnv[f] \in DOMAIN environ

\* The project file's [tool.prisma] table gives the field
FileGives(f) == pyproject.state = "ok" /\ f \in DOMAIN pyproject.prisma

\* A source's text as a value of the field's type: a path for binary_cache_dir
AsField(f, text) == IF f = "binary_cache_dir" THEN Path(text) ELSE text

\* The environment's value, else the file's, else dflt
Precedence(f, dflt) ==
    IF EnvGives(f) THEN AsField(f, EnvValue[DefaultConfigEnv[f]])
    ELSE IF FileGives(f) THEN AsField(f, FileValue[f])
    ELSE dflt

\* C3 as stated: each of the four fields holds its environment variable's
\* value when that is set, else the project file's value, else the declared
\* default.
C3_EnvThenFileThenDeclaredDefault ==
    Returned =>
        \A f \in StrFields \cup {"binary_cache_dir"} :
            loaded.value[f] = Precedence(f, FieldDefault[f])

\* C3, amended: engine_version, prisma_url and engine_url hold the
\* environment's value, else the file's, else the declared default;
\* binary_cache_dir holds the environment's path, else the file's, else the
\* path derived from the resolved engine_version, never its declared default.
C3_EnvThenFileThenDefault ==
    Returned =>
        /\ \A f \in StrFields : loaded.value[f] = Precedence(f, FieldDefault[f])
        /\ loaded.value.binary_cache_dir =
              Precedence("binary_cache_dir",
                         <<"tmp", "prisma", "binaries", "engines",
                           loaded.value.engine_version>>)
        /\ loaded.value.binary_cache_dir # FieldDefault.binary_cache_dir

\* Config.load() returned with all four variables set and the project file
\* giving a conflicting value for each field
C3_Witness ==
    /\ Returned
    /\ \A f \in StrFields \cup {"binary_cache_dir"} : EnvGives(f) /\ FileGives(f)
    /\ loaded.value.engine_version = "env-engine"
    /\ loaded.value.binary_cache_dir = <<"env", "cache">>

\* C4: with binary_cache_dir supplied by no source, the resolved directory
\* is <temp dir>/prisma/binaries/engines/<V> for the finally resolved
\* engine_version V (environment, else file, else default); with it
\* supplied, the resolved directory is the supplied one.
C4_CacheDirDerivedOnlyIfNotSupplied ==
    Returned =>
        LET V == Precedence("engine_version", FieldDefault.engine_version)
        IN  /\ loaded.value.engine_version = V
            /\ loaded.value.binary_cache_dir =
                  IF EnvGives("binary_cache_dir") THEN <<"env", "cache">>
                  ELSE IF FileGives("binary_cache_dir") THEN <<"file", "cache">>
                  ELSE <<"tmp", "prisma", "binaries", "engines", V>>

\* Config.load() returned a directory derived from the environment's
\* engine version, the project file giving another version and no directory
C4_Witness ==
    /\ Returned
    /\ ~EnvGives("binary_cache_dir")
    /\ pyproject.state = "ok"
    /\ ~FileGives("binary_cache_dir")
    /\ EnvGives("engine_version")
    /\ FileGives("engine_version")
    /\ loaded.value.binary_cache_dir =
          <<"tmp", "prisma", "binaries", "engines", "env-engine">>

\* C5 as stated: in one process, whatever accesses are made, Config.load is
\* executed at most once.
C5_LoadExecutedAtMostOnce == loads <= 1

\* C5, amended: once an execution of Config.load has returned, it is never
\* executed again; an execution that raises is not memoized, and the next
\* access executes Config.load again.
C5_NoLoadAfterOneReturned == [][cache # NoObject => loads' = loads]_vars

\* A first load raised, a second returned, and a later access was served
\* from the cache
C5_Witness ==
    /\ cache # NoObject
    /\ loads = 2
    /\ result.via = "cache"

\* C6: any two accesses through the proxy are served by the same Config
\* object (one identity), also when the environment or the project file
\* changed between them.
C6_SameObjectServed ==
    /\ Cardinality(served) <= 1
    /\ result.via \in {"load", "cache"} => served = {cache.id} /\ result.id = cache.id

\* An access was served from the cache after the project file was written:
\* the cached Config holds the default version, the file now gives another
C6_Witness ==
    /\ result.via = "cache"
    /\ nassigns = 0
    /\ cache.fields.engine_version = FieldDefault.engine_version
    /\ FileGives("engine_version")
    /\ ~EnvGives("engine_version")

\* C8 as stated: once the settings are resolved, what a read of each field
\* returns is the same in every later state; no change of the environment
\* or the project file and no assignment to a field changes it.
C8_ReadsNeverChange ==
    [][cache # NoObject => \A f \in Fields : ReadAttr(f)' = ReadAttr(f)]_vars

\* C8, amended: once the settings are resolved, what a read of each field
\* returns is the same after every step other than an attribute assignment:
\* after any change of the environment or the project file and any access.
\* An assignment to a field of the proxy or of the Config does change it.
C8_ReadsChangeOnlyByAssignment ==
    [][(cache # NoObject /\ nassigns' = nassigns) =>
          \A f \in Fields : ReadAttr(f)' = ReadAttr(f)]_vars

\* A read was served from the cache after PRISMA_ENGINE_VERSION was set:
\* the Config still holds the version resolved before
C8_Witness ==
    /\ result.via = "cache"
    /\ nassigns = 0
    /\ EnvGives("engine_version")
    /\ ReadAttr("engine_version") # "env-engine"

\* The object of the first thread to miss the cache, and the first stored
FirstCallerObject == tobj[callers[1]].id
FirstStoredObject == stores[1]
LastStoredObject == stores[Len(stores)]

\* C10 as stated: when several callers race on the first access, the first
\* caller wins: its object is the one that stays cached once
\* initialisation is over (whether "first" is the first to call or the
\* first to store).
C10_FirstCallerWins ==
    (Quiescent /\ stores # <<>>) =>
        cache.id \in {FirstCallerObject, FirstStoredObject}

\* C10, amended: when several callers race on the first access, each stores
\* the object it loaded over the one stored before, so the last caller to
\* store wins: once no caller is initialising, the cached object is the
\* last one stored, and every access begun from then on returns it.
C10_LastStoreWins ==
    (Quiescent /\ stores # <<>>) =>
        /\ cache.id = LastStoredObject
        /\ \A t \in Threads : (tpc[t] = "done" /\ late[t]) => tret[t] = cache.id

\* Two callers raced, the second store replaced the first, and an access
\* begun afterwards was served
C10_Witness ==
    /\ Quiescent
    /\ Len(stores) >= 2
    /\ cache.id # FirstStoredObject
    /\ \E t \in Threads : tpc[t] = "done" /\ late[t]

====
